---- MODULE Spec2Model ----
(***************************************************************************)
(* A model of the Search-Guy pipeline: chunk.py (transcript parsing and    *)
(* time-window grouping), create_vectors.py (index build),                 *)
(* search_vectors.py / app.py (similarity search, the /search and /context *)
(* handlers of the server) and scrapeDiscord.py (the export with retries). *)
(*                                                                         *)
(* Text is modelled character by character: a line is a sequence of        *)
(* one-character strings. Python's None is the empty tuple <<>> and a      *)
(* present optional value v is the one-element tuple <<v>>.                *)
(***************************************************************************)
EXTENDS Integers, Sequences, FiniteSets, TLC

VARIABLES
    pc,          \* position of the running script
    input_messages, \* chunk.py: the list as the caller handed it to group_messages_by_time
    lines,       \* chunk.py: file.readlines() of the transcript, one entry per physical line
    window,      \* chunk.py: time_window_minutes
    messages,    \* chunk.py: the `messages` list (sorted in place by the grouping)
    grouped,     \* chunk.py: grouped_messages, the segments written to the JSON file
    build_messages,  \* create_vectors.py: the messages handed to create_vectors
    vector_database, \* vectors.pkl: None, or the index create_vectors pickled
    query,       \* search_vectors: the query of the last search
    top_k,       \* search_vectors: the top_k of the last search
    results,     \* search_vectors: the list the last search returned
    artifact,    \* app.py: None, or the index held by the file vectors.pkl
    transcript,  \* app.py: the lines (with their line ends) of the transcript on disk
    request,     \* app.py: the last request the server got
    response,    \* app.py: the response to it, with the outside calls made for it
    prev_status, \* app.py: the status of the response before that one (0: none)
    remembered,  \* app.py: one earlier search with its answer, kept for comparison
    argsort_seen, \* numpy: the arrays argsort was called on so far, each with its result
    last_id,     \* scrapeDiscord.py: the id saved for the channel by the run before
    history,     \* scrapeDiscord.py: the ids channel.history(after=last_id) holds, oldest first
    attempt,     \* safe_fetch_history: the loop variable
    retry_delay, \* safe_fetch_history
    cursor,      \* how many messages the running channel.history iteration has yielded
    export_file, \* on_ready: the lines appended to the transcript by this run
    new_last_id, \* on_ready
    message_count, \* on_ready
    saved        \* on_ready: state[channel_key] in export_state.json

chunkVars == <<input_messages, lines, window, messages, grouped>>
indexVars == <<build_messages, vector_database, query, top_k, results>>
serveVars == <<artifact, transcript, request, response, prev_status, remembered, argsort_seen>>
fetchVars == <<last_id, history, attempt, retry_delay, cursor, export_file,
               new_last_id, message_count, saved>>
vars == <<pc, chunkVars, indexVars, serveVars, fetchVars>>

(***************************************************************************)
(* Bounds of the model.                                                    *)
(***************************************************************************)
MaxMsgs == 3      \* longest message list handed to group_messages_by_time directly
MaxLines == 3     \* most physical lines of a transcript file
MaxBuild == 3     \* most messages handed to create_vectors
MaxTopK == 3      \* largest top_k of a search

(***************************************************************************)
(* Optional values.                                                        *)
(***************************************************************************)
None == <<>>
Some(v) == <<v>>
IsNone(o) == o = None
Val(o) == o[1]

(***************************************************************************)
(* datetime: <<ordinal day, second of the day, microsecond>>.              *)
(***************************************************************************)
IsLeap(y) == (y % 4 = 0) /\ ((y % 100 # 0) \/ (y % 400 = 0))

DaysInMonth(y, m) ==
    IF m = 2 THEN (IF IsLeap(y) THEN 29 ELSE 28)
    ELSE IF m \in {4, 6, 9, 11} THEN 30 ELSE 31

RECURSIVE DaysBeforeMonth(_, _)
DaysBeforeMonth(y, m) ==
    IF m <= 1 THEN 0 ELSE DaysBeforeMonth(y, m - 1) + DaysInMonth(y, m - 1)

DaysBeforeYear(y) ==
    (y - 1) * 365 + ((y - 1) \div 4) - ((y - 1) \div 100) + ((y - 1) \div 400)

\* datetime(y, mo, d, h, mi, s) for valid fields
MkDatetime(y, mo, d, h, mi, s) ==
    <<DaysBeforeYear(y) + DaysBeforeMonth(y, mo) + d, h * 3600 + mi * 60 + s, 0>>

\* datetime.max = 9999-12-31 23:59:59.999999
DatetimeMax == <<3652059, 86399, 999999>>

\* a < b on datetimes
DtLess(a, b) ==
    \/ a[1] < b[1]
    \/ a[1] = b[1] /\ a[2] < b[2]
    \/ a[1] = b[1] /\ a[2] = b[2] /\ a[3] < b[3]

\* (a - b).total_seconds() for datetimes with microsecond 0
TotalSeconds(a, b) == (a[1] - b[1]) * 86400 + (a[2] - b[2])

Abs(n) == IF n < 0 THEN -n ELSE n

(***************************************************************************)
(* group_messages_by_time (chunk.py 22-103).                               *)
(***************************************************************************)
\* sort_key without the line_number fallback
sort_key_NoTieBreak(message) ==
    IF IsNone(message.timestamp) THEN <<DatetimeMax, 0>> ELSE <<Val(message.timestamp), 0>>

\* sort_key(message): (timestamp or datetime.max, line_number)
sort_key(message) ==
    IF IsNone(message.timestamp)
    THEN <<DatetimeMax, message.line_number>>
    ELSE <<Val(message.timestamp), message.line_number>>

\* tuple comparison k1 < k2 of two sort keys
KeyLess(k1, k2) ==
    \/ DtLess(k1[1], k2[1])
    \/ k1[1] = k2[1] /\ k1[2] < k2[2]

\* list.sort is stable: m goes after every element whose key is not greater
RECURSIVE InsertSorted(_, _)
InsertSorted(sorted, m) ==
    IF sorted = <<>> THEN <<m>>
    ELSE IF KeyLess(sort_key(m), sort_key(sorted[Len(sorted)]))
         THEN Append(InsertSorted(SubSeq(sorted, 1, Len(sorted) - 1), m),
                     sorted[Len(sorted)])
         ELSE Append(sorted, m)

RECURSIVE SortFrom(_, _, _)
SortFrom(msgs, i, acc) ==
    IF i > Len(msgs) THEN acc
    ELSE SortFrom(msgs, i + 1, InsertSorted(acc, msgs[i]))

\* messages.sort(key=sort_key)
SortMessages(msgs) == SortFrom(msgs, 1, <<>>)

\* one segment of the output
Segment(current_timestamp, current_group, msgs) ==
    [timestamp |-> current_timestamp,
     messages |-> current_group,
     source_file |-> msgs[1].source_file]

\* the comparison with the division by 60 forgotten
WithinWindowSeconds(message_timestamp, current_timestamp, w) ==
    Abs(TotalSeconds(message_timestamp, current_timestamp)) <= w

\* time_diff <= time_window_minutes, time_diff in minutes from total_seconds()/60
WithinWindow(message_timestamp, current_timestamp, w) ==
    Abs(TotalSeconds(message_timestamp, current_timestamp)) <= 60 * w

\* the for loop over messages[1:], from index i of the sorted list on
RECURSIVE GroupLoop(_, _, _, _, _, _)

\* the loop without its first branch: an untimestamped message joins the open group
GroupLoopJoinsUntimestamped(msgs, i, current_group, current_timestamp, out, w) ==
    IF i > Len(msgs)
    THEN Append(out, Segment(current_timestamp, current_group, msgs))
    ELSE LET message == msgs[i]
             message_timestamp == message.timestamp
             closed == Append(out, Segment(current_timestamp, current_group, msgs))
         IN  IF IsNone(message_timestamp)
             THEN GroupLoop(msgs, i + 1, Append(current_group, message),
                            current_timestamp, out, w)
             ELSE IF IsNone(current_timestamp)
             THEN GroupLoop(msgs, i + 1, <<message>>, message_timestamp, closed, w)
             ELSE IF WithinWindow(Val(message_timestamp), Val(current_timestamp), w)
             THEN GroupLoop(msgs, i + 1, Append(current_group, message),
                            current_timestamp, out, w)
             ELSE GroupLoop(msgs, i + 1, <<message>>, message_timestamp, closed, w)

GroupLoop(msgs, i, current_group, current_timestamp, out, w) ==
    IF i > Len(msgs)
    THEN Append(out, Segment(current_timestamp, current_group, msgs))
    ELSE LET message == msgs[i]
             message_timestamp == message.timestamp
             closed == Append(out, Segment(current_timestamp, current_group, msgs))
         IN  IF IsNone(message_timestamp)
             THEN GroupLoop(msgs, i + 1, <<message>>, message_timestamp, closed, w)
             ELSE IF IsNone(current_timestamp)
             THEN GroupLoop(msgs, i + 1, <<message>>, message_timestamp, closed, w)
             ELSE IF WithinWindow(Val(message_timestamp), Val(current_timestamp), w)
             THEN GroupLoop(msgs, i + 1, Append(current_group, message),
                            current_timestamp, out, w)
             ELSE GroupLoop(msgs, i + 1, <<message>>, message_timestamp, closed, w)

\* group_messages_by_time(messages, time_window_minutes): the returned list;
\* the argument list itself is left sorted (SortMessages)
group_messages_by_time(msgs, w) ==
    IF msgs = <<>> THEN <<>>
    ELSE LET sorted == SortMessages(msgs)
         IN  GroupLoop(sorted, 2, <<sorted[1]>>, sorted[1].timestamp, <<>>, w)

(***************************************************************************)
(* Text helpers (str.strip, re.match, datetime.strptime).                  *)
(***************************************************************************)
\* what str.strip() removes (of the characters the model uses)
Whitespace == {" ", "\t", "\n", "\r"}

RECURSIVE LStrip(_, _)
LStrip(s, chars) ==
    IF s # <<>> /\ s[1] \in chars THEN LStrip(Tail(s), chars) ELSE s

RECURSIVE RStrip(_, _)
RStrip(s, chars) ==
    IF s # <<>> /\ s[Len(s)] \in chars
    THEN RStrip(SubSeq(s, 1, Len(s) - 1), chars) ELSE s

\* s.strip()
StripLeftOnly(s) == LStrip(s, Whitespace)
Strip(s) == RStrip(LStrip(s, Whitespace), Whitespace)

DigitChars == <<"0", "1", "2", "3", "4", "5", "6", "7", "8", "9">>
IsDigit(c) == \E k \in DOMAIN DigitChars : DigitChars[k] = c
DigitValue(c) == (CHOOSE k \in DOMAIN DigitChars : DigitChars[k] = c) - 1

\* int() of a run of digits
RECURSIVE ToInt(_)
ToInt(s) ==
    IF s = <<>> THEN 0 ELSE 10 * ToInt(SubSeq(s, 1, Len(s) - 1)) + DigitValue(s[Len(s)])

\* \[\d{4}-\d{2}-\d{2} \d{2}:\d{2}:\d{2} UTC\] followed by " [" ; "d" stands for \d
PatternPrefix ==
    <<"[", "d", "d", "d", "d", "-", "d", "d", "-", "d", "d", " ",
      "d", "d", ":", "d", "d", ":", "d", "d", " ", "U", "T", "C", "]", " ", "[">>

MatchesAt(s, pos, pat) ==
    /\ Len(s) >= pos + Len(pat) - 1
    /\ \A k \in DOMAIN pat :
          IF pat[k] = "d" THEN IsDigit(s[pos + k - 1]) ELSE s[pos + k - 1] = pat[k]

\* the end of the lazy group (.*?): the first "]: " at or after position 28
UsernameEnds(s) == {j \in 28..Len(s) : MatchesAt(s, j, <<"]", ":", " ">>)}

\* re.match(timestamp_pattern, line): None, or the three groups
re_match(line) ==
    IF MatchesAt(line, 1, PatternPrefix) /\ UsernameEnds(line) # {}
    THEN LET j == CHOOSE e \in UsernameEnds(line) : \A f \in UsernameEnds(line) : e <= f
         IN  Some([timestamp_str |-> SubSeq(line, 2, 24),
                   username |-> SubSeq(line, 28, j - 1),
                   content |-> SubSeq(line, j + 3, Len(line))])
    ELSE None

\* datetime.strptime(s, '%Y-%m-%d %H:%M:%S UTC'); None stands for ValueError
strptime(s) ==
    IF ~MatchesAt(s, 1, SubSeq(PatternPrefix, 2, 24)) \/ Len(s) # 23 THEN None
    ELSE LET y  == ToInt(SubSeq(s, 1, 4))
             mo == ToInt(SubSeq(s, 6, 7))
             d  == ToInt(SubSeq(s, 9, 10))
             h  == ToInt(SubSeq(s, 12, 13))
             mi == ToInt(SubSeq(s, 15, 16))
             sec == ToInt(SubSeq(s, 18, 19))
         IN  IF /\ y >= 1
                /\ mo >= 1 /\ mo <= 12
                /\ d >= 1 /\ d <= DaysInMonth(y, mo)
                /\ h <= 23 /\ mi <= 59 /\ sec <= 59
             THEN Some(MkDatetime(y, mo, d, h, mi, sec))
             ELSE None

\* parse_timestamp(timestamp_str) (chunk.py 8-20); None stands for ValueError
parse_timestamp(timestamp_str) ==
    strptime(RStrip(LStrip(timestamp_str, {"[", "]"}), {"[", "]"}))

(***************************************************************************)
(* chunk_lines_to_json (chunk.py 105-180).                                 *)
(***************************************************************************)
SourceFile == "chat.txt"

\* enumerate(lines, 1): the number given to the line at position i (from 1)
LineNumZeroBased(i) == i - 1
LineNum(i) == i

\* the body of the for loop for one line: the messages it appends (none or one)
ParseLine(line_num, raw) ==
    LET line == Strip(raw)
        match == re_match(line)
    IN  IF line = <<>> THEN <<>>
        ELSE IF ~IsNone(match)
        THEN LET timestamp == parse_timestamp(Val(match).timestamp_str)
             IN  IF IsNone(timestamp)
                 THEN <<>>      \* except ValueError: a warning is printed
                 ELSE <<[line_number |-> line_num,
                         timestamp |-> timestamp,
                         username |-> Some(Val(match).username),
                         content |-> Val(match).content,
                         source_file |-> SourceFile]>>
        ELSE <<[line_number |-> line_num,
                timestamp |-> None,
                username |-> None,
                content |-> line,
                source_file |-> SourceFile]>>

RECURSIVE ParseFrom(_, _, _)
ParseFrom(ls, i, acc) ==
    IF i > Len(ls) THEN acc
    ELSE ParseFrom(ls, i + 1, acc \o ParseLine(LineNum(i), ls[i]))

\* the `messages` list built from the file's lines
ParseLines(ls) == ParseFrom(ls, 1, <<>>)

\* the index side of the pipeline is not running
IndexIdle ==
    /\ build_messages = <<>>
    /\ vector_database = None
    /\ query = <<>>
    /\ top_k = 0
    /\ results = <<>>

\* no export is running
FetchIdle ==
    /\ last_id = None
    /\ history = <<>>
    /\ attempt = 0
    /\ retry_delay = 1
    /\ cursor = 0
    /\ export_file = <<>>
    /\ new_last_id = None
    /\ message_count = 0
    /\ saved = None

\* no server is running
ServeIdle ==
    /\ artifact = None
    /\ transcript = <<>>
    /\ request = None
    /\ response = None
    /\ prev_status = 0
    /\ remembered = None
    /\ argsort_seen = {}

\* the chunker is not running
ChunkIdle ==
    /\ input_messages = <<>>
    /\ lines = <<>>
    /\ window = 0
    /\ messages = <<>>
    /\ grouped = <<>>

(***************************************************************************)
(* Direct calls of group_messages_by_time on arbitrary message lists.      *)
(***************************************************************************)
\* time_window_minutes=5 is the default; 1 is the other window of the scenario
Windows == {1, 5}

\* 2023-12-31 23:58:00, 2024-01-01 00:00:00, 00:03:00 and 00:06:00, or no timestamp
GroupTimestamps ==
    {None,
     Some(MkDatetime(2023, 12, 31, 23, 58, 0)),
     Some(MkDatetime(2024, 1, 1, 0, 0, 0)),
     Some(MkDatetime(2024, 1, 1, 0, 3, 0)),
     Some(MkDatetime(2024, 1, 1, 0, 6, 0))}

GroupLineNumbers == {1, 2, 3}

GroupMessages ==
    [line_number : GroupLineNumbers, timestamp : GroupTimestamps,
     username : {None}, content : {<<"x">>}, source_file : {SourceFile}]

RECURSIVE SeqsUpTo(_, _)
SeqsUpTo(S, n) ==
    IF n = 0 THEN {<<>>}
    ELSE LET shorter == SeqsUpTo(S, n - 1)
         IN  shorter \cup {Append(q, e) : q \in {r \in shorter : Len(r) = n - 1}, e \in S}

InitGroup ==
    /\ pc = "call"
    /\ input_messages \in SeqsUpTo(GroupMessages, MaxMsgs)
    /\ messages = input_messages
    /\ window \in Windows
    /\ lines = <<>>
    /\ grouped = <<>>
    /\ IndexIdle
    /\ ServeIdle
    /\ FetchIdle

\* grouped = group_messages_by_time(messages, window); the list is sorted in place
GroupMessagesByTime ==
    /\ pc = "call"
    /\ grouped' = group_messages_by_time(messages, window)
    /\ messages' = SortMessages(messages)
    /\ pc' = "returned"
    /\ UNCHANGED <<input_messages, lines, window, indexVars, serveVars, fetchVars>>

NextGroup == GroupMessagesByTime

SpecGroup == InitGroup /\ [][NextGroup]_vars

(***************************************************************************)
(* Properties of the grouping.                                             *)
(***************************************************************************)
RECURSIVE Flatten(_)
Flatten(segs) ==
    IF segs = <<>> THEN <<>> ELSE segs[1].messages \o Flatten(Tail(segs))

Range(q) == {q[i] : i \in DOMAIN q}
Count(q, e) == Cardinality({i \in DOMAIN q : q[i] = e})
IsPermutation(p, q) ==
    /\ Len(p) = Len(q)
    /\ \A e \in Range(p) \cup Range(q) : Count(p, e) = Count(q, e)

\* a may stand before b: timestamped before untimestamped, ascending timestamp,
\* equal or absent timestamps by ascending line_number
MayPrecede(a, b) ==
    IF IsNone(a.timestamp)
    THEN IsNone(b.timestamp) /\ a.line_number <= b.line_number
    ELSE \/ IsNone(b.timestamp)
         \/ DtLess(Val(a.timestamp), Val(b.timestamp))
         \/ a.timestamp = b.timestamp /\ a.line_number <= b.line_number

\* C1: concatenating the segments' messages gives the input messages, each exactly
\* once, timestamped ones by ascending timestamp, then the untimestamped ones, ties
\* by ascending line_number.
C1_ConcatIsSortedInput ==
    pc = "returned" =>
        LET flat == Flatten(grouped)
        IN  /\ IsPermutation(flat, input_messages)
            /\ \A i, j \in DOMAIN flat : i < j => MayPrecede(flat[i], flat[j])

\* the sort had to move messages: an untimestamped message came first and two
\* timestamped ones came in descending order
C1_Witness ==
    /\ pc = "returned"
    /\ Len(input_messages) = 3
    /\ IsNone(input_messages[1].timestamp)
    /\ ~IsNone(input_messages[2].timestamp) /\ ~IsNone(input_messages[3].timestamp)
    /\ DtLess(Val(input_messages[3].timestamp), Val(input_messages[2].timestamp))
    /\ Len(Flatten(grouped)) = 3

MinutesApartAtMost(a, b, w) == Abs(TotalSeconds(Val(a), Val(b))) <= 60 * w

ScenarioMessages ==
    <<[line_number |-> 1, timestamp |-> Some(MkDatetime(2024, 1, 1, 0, 0, 0)),
       username |-> None, content |-> <<"x">>, source_file |-> SourceFile],
      [line_number |-> 2, timestamp |-> Some(MkDatetime(2024, 1, 1, 0, 3, 0)),
       username |-> None, content |-> <<"x">>, source_file |-> SourceFile]>>

\* C2: in a segment whose first member is timestamped every member is within the
\* window of the first member, and a timestamped message that follows a timestamped
\* segment opens a new one exactly when it is farther than the window from that
\* segment's first member; 00:00 and 00:03 are one segment at window 5, two at 1.
C2_AnchoredWindow ==
    pc = "returned" =>
        /\ \A k \in DOMAIN grouped :
              LET seg == grouped[k] IN
              ~IsNone(seg.messages[1].timestamp) =>
                  /\ seg.timestamp = seg.messages[1].timestamp
                  /\ \A i \in DOMAIN seg.messages :
                        /\ ~IsNone(seg.messages[i].timestamp)
                        /\ MinutesApartAtMost(seg.messages[i].timestamp,
                                              seg.messages[1].timestamp, window)
        /\ \A k \in DOMAIN grouped :
              (/\ k > 1
               /\ ~IsNone(grouped[k].messages[1].timestamp)
               /\ ~IsNone(grouped[k - 1].messages[1].timestamp))
              => ~MinutesApartAtMost(grouped[k].messages[1].timestamp,
                                     grouped[k - 1].messages[1].timestamp, window)
        /\ input_messages = ScenarioMessages =>
              IF window = 5
              THEN Len(grouped) = 1 /\ Len(grouped[1].messages) = 2
              ELSE Len(grouped) = 2 /\ Len(grouped[1].messages) = 1
                                    /\ Len(grouped[2].messages) = 1

\* 23:58, 00:03, 00:06 at window 5: 00:03 is exactly 5 minutes from the anchor and
\* joins; 00:06 is within 5 minutes of 00:03 but not of the anchor, and is split off
C2_Witness ==
    /\ pc = "returned"
    /\ window = 5
    /\ Len(grouped) = 2
    /\ Len(grouped[1].messages) = 2
    /\ grouped[1].timestamp = Some(MkDatetime(2023, 12, 31, 23, 58, 0))
    /\ grouped[1].messages[2].timestamp = Some(MkDatetime(2024, 1, 1, 0, 3, 0))
    /\ grouped[2].timestamp = Some(MkDatetime(2024, 1, 1, 0, 6, 0))

\* C3: a message without timestamp is alone in its segment, whose timestamp is
\* absent; no segment holds both a timestamped and an untimestamped message.
C3_UntimestampedAlone ==
    pc = "returned" =>
        \A k \in DOMAIN grouped :
            LET seg == grouped[k] IN
            (\E i \in DOMAIN seg.messages : IsNone(seg.messages[i].timestamp))
            => /\ Len(seg.messages) = 1
               /\ IsNone(seg.timestamp)

\* two untimestamped messages follow a timestamped one: three segments
C3_Witness ==
    /\ pc = "returned"
    /\ Len(grouped) = 3
    /\ ~IsNone(grouped[1].timestamp)
    /\ IsNone(grouped[2].timestamp) /\ IsNone(grouped[3].timestamp)
    /\ Len(grouped[2].messages) = 1 /\ Len(grouped[3].messages) = 1

(***************************************************************************)
(* chunk_lines_to_json on transcript files.                                *)
(***************************************************************************)
Digits2(n) == <<DigitChars[(n \div 10) + 1], DigitChars[(n % 10) + 1]>>
Digits4(n) == Digits2(n \div 100) \o Digits2(n % 100)

\* "%Y-%m-%d %H:%M:%S UTC" of the fields f = <<year, month, day, hour, minute, second>>
TimestampText(f) ==
    Digits4(f[1]) \o <<"-">> \o Digits2(f[2]) \o <<"-">> \o Digits2(f[3]) \o <<" ">>
    \o Digits2(f[4]) \o <<":">> \o Digits2(f[5]) \o <<":">> \o Digits2(f[6])
    \o <<" ", "U", "T", "C">>

\* the line the scraper writes: f"[{timestamp}] {author}: {content}"
ScraperLine(f, author, content) ==
    <<"[">> \o TimestampText(f) \o <<"]", " ">> \o author \o <<":", " ">> \o content

\* the line the chunker's pattern names: [timestamp] [username]: message content
BracketedLine(f, author, content) ==
    <<"[">> \o TimestampText(f) \o <<"]", " ", "[">> \o author \o <<"]", ":", " ">> \o content

\* the scraper's continuation line "    [Embed]"
EmbedLine == <<" ", " ", " ", " ", "[", "E", "m", "b", "e", "d", "]">>

\* well-formed message parts: valid timestamp fields, author, content
WellFormedParts ==
    {<< <<2024, 1, 1, 0, 0, 0>>, <<"a">>, <<"x">> >>,
     << <<2024, 1, 1, 0, 3, 0>>, <<"b">>, <<"y", "]", ":", " ", "z">> >>,
     << <<2024, 2, 29, 0, 6, 0>>, <<"a", "#", "0">>, <<"x">> >>}

\* lines whose timestamp has the digit shape but names no calendar date/time
BadDateLines ==
    {BracketedLine(<<2024, 13, 1, 0, 0, 0>>, <<"a">>, <<"x">>),
     BracketedLine(<<2023, 2, 29, 0, 0, 0>>, <<"a">>, <<"x">>)}

TranscriptLines ==
    {<<>>, <<" ">>, EmbedLine, <<"h", "i", "\t">>,
     BracketedLine(<<2024, 1, 1, 0, 0, 0>>, <<"a">>, <<"x">>),
     BracketedLine(<<2024, 1, 1, 0, 3, 0>>, <<"b">>, <<"y", "]", ":", " ", "z">>),
     <<" ">> \o BracketedLine(<<2023, 12, 31, 23, 58, 0>>, <<"a">>, <<"x">>),
     ScraperLine(<<2024, 2, 29, 0, 6, 0>>, <<"a", "#", "0">>, <<"x">>)}
    \cup BadDateLines

InitChunk ==
    /\ pc = "start"
    /\ lines \in SeqsUpTo(TranscriptLines, MaxLines)
    /\ window \in Windows
    /\ input_messages = <<>>
    /\ messages = <<>>
    /\ grouped = <<>>
    /\ IndexIdle
    /\ ServeIdle
    /\ FetchIdle

\* chunk_lines_to_json(input_file_path): parse every line, group, write the segments
ChunkLinesToJson ==
    /\ pc = "start"
    /\ input_messages' = ParseLines(lines)
    /\ messages' = SortMessages(ParseLines(lines))
    /\ grouped' = group_messages_by_time(ParseLines(lines), window)
    /\ pc' = "done"
    /\ UNCHANGED <<lines, window, indexVars, serveVars, fetchVars>>

NextChunk == ChunkLinesToJson

SpecChunk == InitChunk /\ [][NextChunk]_vars

(***************************************************************************)
(* Properties of the parsing.                                              *)
(***************************************************************************)
IsBlank(raw) == \A k \in DOMAIN raw : raw[k] \in Whitespace

NonBlankLines == {i \in DOMAIN lines : ~IsBlank(lines[i])}

\* the line without its leading and trailing whitespace
Trimmed(raw) ==
    LET solid == {k \in DOMAIN raw : raw[k] \notin Whitespace}
    IN  IF solid = {} THEN <<>>
        ELSE SubSeq(raw, CHOOSE k \in solid : \A l \in solid : k <= l,
                         CHOOSE k \in solid : \A l \in solid : k >= l)

\* the text has the digit shape of a bracketed timestamp at its start
HasTimestampShape(text) == MatchesAt(text, 1, SubSeq(PatternPrefix, 1, 25))

MessagesOfLine(i) == {k \in DOMAIN input_messages : input_messages[k].line_number = i}

\* C4: a non-blank line whose timestamp has the digit shape but is no calendar
\* date/time yields a message without timestamp and author whose content is the
\* line, so there are as many messages as non-blank lines.
C4_BadDatePreserved ==
    pc = "done" =>
        /\ Len(input_messages) = Cardinality(NonBlankLines)
        /\ \A i \in DOMAIN lines :
              lines[i] \in BadDateLines =>
                  \E k \in MessagesOfLine(i) :
                      /\ IsNone(input_messages[k].timestamp)
                      /\ IsNone(input_messages[k].username)
                      /\ input_messages[k].content = lines[i]

IsSuffix(t, s) == Len(t) <= Len(s) /\ t = SubSeq(s, Len(s) - Len(t) + 1, Len(s))

\* C5: a message's line_number is the 1-based physical position of its line,
\* blank lines counted; blank lines give no message; grouping keeps line numbers.
C5_PhysicalLineNumbers ==
    pc = "done" =>
        /\ \A k \in DOMAIN input_messages :
              LET m == input_messages[k] IN
              /\ m.line_number \in NonBlankLines
              /\ IsSuffix(m.content, Trimmed(lines[m.line_number]))
              /\ \A l \in DOMAIN input_messages : l < k =>
                    input_messages[l].line_number < m.line_number
        /\ IsPermutation(Flatten(grouped), input_messages)
        /\ IsPermutation(messages, input_messages)

\* a blank first line is followed by two lines with messages, numbered 2 and 3,
\* which the sort swaps
C5_Witness ==
    /\ pc = "done"
    /\ Len(lines) = 3
    /\ IsBlank(lines[1])
    /\ Len(input_messages) = 2
    /\ input_messages[1].line_number = 2 /\ input_messages[2].line_number = 3
    /\ Flatten(grouped)[1].line_number = 3

\* C6: a line '[timestamp] author: content' with a valid timestamp, the author
\* bracketed or not, gives a message with that timestamp, author and content.
C6_AuthorAndContentRecovered ==
    pc = "done" =>
        \A i \in DOMAIN lines : \A p \in WellFormedParts :
            lines[i] \in {ScraperLine(p[1], p[2], p[3]), BracketedLine(p[1], p[2], p[3])}
            => \E k \in MessagesOfLine(i) :
                  /\ input_messages[k].timestamp =
                        Some(MkDatetime(p[1][1], p[1][2], p[1][3], p[1][4], p[1][5], p[1][6]))
                  /\ input_messages[k].username = Some(p[2])
                  /\ input_messages[k].content = p[3]

\* the text matches the line grammar: a bracketed timestamp shape, a space, and
\* an author token closed by a colon
MatchesGrammar(text) ==
    /\ HasTimestampShape(text)
    /\ Len(text) >= 26 /\ text[26] = " "
    /\ \E j \in 27..Len(text) : text[j] = ":"

\* C7 as stated: a non-blank line outside the grammar gives a message without
\* timestamp and author whose content is the line text, leading and trailing
\* characters included.
C7_ContentIsWholeLine ==
    pc = "done" =>
        \A i \in NonBlankLines :
            ~MatchesGrammar(lines[i]) =>
                \E k \in MessagesOfLine(i) :
                    /\ IsNone(input_messages[k].timestamp)
                    /\ IsNone(input_messages[k].username)
                    /\ input_messages[k].content = lines[i]

\* C7, amended: a non-blank line whose text without leading and trailing
\* whitespace is outside the grammar gives exactly one message, without timestamp
\* and author, whose content is that text without leading and trailing whitespace.
C7_ContentIsTrimmedLine ==
    pc = "done" =>
        \A i \in NonBlankLines :
            ~MatchesGrammar(Trimmed(lines[i])) =>
                /\ Cardinality(MessagesOfLine(i)) = 1
                /\ \A k \in MessagesOfLine(i) :
                      /\ IsNone(input_messages[k].timestamp)
                      /\ IsNone(input_messages[k].username)
                      /\ input_messages[k].content = Trimmed(lines[i])
                      /\ \E g \in DOMAIN grouped :
                            grouped[g].messages = <<input_messages[k]>>

\* the continuation line "    [Embed]" and a line with a trailing tab were parsed
C7_Witness ==
    /\ pc = "done"
    /\ Len(lines) = 2
    /\ lines[1] = EmbedLine
    /\ lines[2] = <<"h", "i", "\t">>
    /\ Len(input_messages) = 2
    /\ input_messages[1].content = <<"[", "E", "m", "b", "e", "d", "]">>
    /\ input_messages[2].content = <<"h", "i">>

(***************************************************************************)
(* The embedding model and cosine similarity.                              *)
(* model.encode is a fixed function from text to vectors; here the texts   *)
(* of Vocabulary go to two-dimensional integer vectors of norm 0, 1 or 5,  *)
(* so every cosine is a whole number of hundredths. Scores are kept in     *)
(* hundredths: 96 stands for 0.96.                                         *)
(***************************************************************************)
Vocabulary ==
    {<<"h", "i">>, <<"y", "o">>, <<"n", "o">>, <<"x">>, <<"y">>, <<"?">>}

\* model.encode of one text
Embed(text) ==
    CASE text = <<"h", "i">> -> <<1, 0>>
      [] text = <<"y", "o">> -> <<0, 1>>
      [] text = <<"n", "o">> -> <<-1, 0>>
      [] text = <<"x">> -> <<3, 4>>
      [] text = <<"y">> -> <<4, 3>>
      [] OTHER -> <<0, 0>>

\* model.encode(list of texts): one row per text, in order
Encode(texts) == [i \in DOMAIN texts |-> Embed(texts[i])]

Dot(a, b) == a[1] * b[1] + a[2] * b[2]
Norm(a) == CHOOSE n \in 0..(Abs(a[1]) + Abs(a[2])) : n * n = Dot(a, a)

\* sklearn's cosine_similarity of two rows, in hundredths; a zero row gives 0
CosineSimilarity(a, b) ==
    IF Norm(a) = 0 \/ Norm(b) = 0 THEN 0
    ELSE (100 * Dot(a, b)) \div (Norm(a) * Norm(b))

(***************************************************************************)
(* create_vectors (create_vectors.py 47-106).                              *)
(***************************************************************************)
\* the filter with only absent content caught
HasContentNotNone(msg) == ~IsNone(msg.content)

\* content = msg.get('content', ''); if content:
HasContent(msg) == ~IsNone(msg.content) /\ Val(msg.content) # <<>>

\* metadata_entry of a message
MetadataEntry(msg) ==
    [line_number |-> msg.line_number,
     timestamp |-> msg.timestamp,
     username |-> msg.username,
     source_file |-> msg.source_file,
     original_message |-> msg]

\* the for loop over messages: message_contents and message_metadata
RECURSIVE CollectFrom(_, _, _, _)
CollectFrom(msgs, i, message_contents, message_metadata) ==
    IF i > Len(msgs)
    THEN [message_contents |-> message_contents, message_metadata |-> message_metadata]
    ELSE IF HasContent(msgs[i])
    THEN CollectFrom(msgs, i + 1,
                     Append(message_contents,
                            IF IsNone(msgs[i].content) THEN <<>> ELSE Val(msgs[i].content)),
                     Append(message_metadata, MetadataEntry(msgs[i])))
    ELSE CollectFrom(msgs, i + 1, message_contents, message_metadata)

\* the vector_database create_vectors pickles
create_vectors(msgs) ==
    LET collected == CollectFrom(msgs, 1, <<>>, <<>>)
    IN  [model_name |-> "all-mpnet-base-v2",
         embeddings |-> IF collected.message_contents # <<>>
                        THEN Encode(collected.message_contents)
                        ELSE <<>>,
         message_metadata |-> collected.message_metadata]

(***************************************************************************)
(* search_vectors (app.py 38-83, search_vectors.py 28-69).                 *)
(***************************************************************************)
\* np.argsort(similarities): the default kind is quicksort, which is not stable, so
\* any order of the indices with ascending similarities can come out
Argsort(similarities) ==
    {p \in [DOMAIN similarities -> DOMAIN similarities] :
        /\ \A i, j \in DOMAIN similarities : i # j => p[i] # p[j]
        /\ \A i, j \in DOMAIN similarities : i < j => similarities[p[i]] <= similarities[p[j]]}

\* [::-1] left out
NotReversed(order) == order
\* order[::-1]
Reversed(order) == [i \in DOMAIN order |-> order[Len(order) + 1 - i]]

\* order[:k] for k >= 0
Take(order, k) == SubSeq(order, 1, IF k < Len(order) THEN k ELSE Len(order))

\* the filter with zero similarity let through
IsMatchOrZero(similarity) == similarity >= 0

\* if similarities[idx] > 0
IsMatch(similarity) == similarity > 0

\* the for loop over top_indices
RECURSIVE ResultsFrom(_, _, _, _, _)
ResultsFrom(top_indices, n, similarities, db, acc) ==
    IF n > Len(top_indices) THEN acc
    ELSE LET idx == top_indices[n]
         IN  ResultsFrom(top_indices, n + 1, similarities, db,
                 IF IsMatch(similarities[idx])
                 THEN Append(acc,
                        [score |-> similarities[idx],
                         metadata |-> db.message_metadata[idx],
                         content |-> Val(db.message_metadata[idx].original_message.content)])
                 ELSE acc)

\* cosine_similarity(query_embedding, embeddings)[0]
Similarities(q, db) ==
    [i \in DOMAIN db.embeddings |-> CosineSimilarity(Embed(q), db.embeddings[i])]

\* the lists search_vectors(query, vector_database, top_k) can return
search_vectors(q, db, k) ==
    IF Len(db.embeddings) = 0 THEN {<<>>}
    ELSE {ResultsFrom(Take(Reversed(order), k), 1, Similarities(q, db), db, <<>>) :
             order \in Argsort(Similarities(q, db))}

(***************************************************************************)
(* Building an index and searching it.                                     *)
(***************************************************************************)
\* content of an input message: absent, empty, or a text of the vocabulary
BuildContents == {None, Some(<<>>)} \cup {Some(t) : t \in Vocabulary}

\* the i-th message of the flattened chunk files, with content c
BuildMessage(i, c) ==
    [line_number |-> i, timestamp |-> None, username |-> None,
     source_file |-> SourceFile, content |-> c]

BuildInputs ==
    {[i \in DOMAIN cs |-> BuildMessage(i, cs[i])] : cs \in SeqsUpTo(BuildContents, MaxBuild)}

InitIndex ==
    /\ pc = "build"
    /\ build_messages \in BuildInputs
    /\ vector_database = None
    /\ query = <<>>
    /\ top_k = 0
    /\ results = <<>>
    /\ ChunkIdle
    /\ ServeIdle
    /\ FetchIdle

\* create_vectors(messages): the index is built and pickled, then loaded
CreateVectors ==
    /\ pc = "build"
    /\ vector_database' = Some(create_vectors(build_messages))
    /\ pc' = "loaded"
    /\ UNCHANGED <<build_messages, query, top_k, results, chunkVars, serveVars, fetchVars>>

\* search_vectors(query, vector_database, top_k) for a query and a positive top_k
SearchVectors ==
    /\ pc = "loaded"
    /\ \E q \in Vocabulary, k \in 1..MaxTopK :
          /\ query' = q
          /\ top_k' = k
          /\ results' \in search_vectors(q, Val(vector_database), k)
    /\ pc' = "searched"
    /\ UNCHANGED <<build_messages, vector_database, chunkVars, serveVars, fetchVars>>

NextIndex == CreateVectors \/ SearchVectors

SpecIndex == InitIndex /\ [][NextIndex]_vars

(***************************************************************************)
(* Properties of the search and of the index build.                        *)
(***************************************************************************)
\* C8: a search with a positive top_k returns at most top_k results, none with
\* score <= 0, in non-increasing order of score.
C8_SearchBounded ==
    pc = "searched" =>
        /\ Len(results) <= top_k
        /\ \A i \in DOMAIN results : results[i].score > 0
        /\ \A i, j \in DOMAIN results : i < j => results[i].score >= results[j].score

\* three entries, top_k = 2: two results of different score came back and an entry
\* of non-positive similarity exists in the index
C8_Witness ==
    /\ pc = "searched"
    /\ top_k = 2
    /\ Len(Val(vector_database).embeddings) = 3
    /\ Len(results) = 2
    /\ results[1].score > results[2].score
    /\ \E i \in 1..3 : Similarities(query, Val(vector_database))[i] <= 0

\* the position in the index of a result (line numbers are distinct)
IndexOf(r) ==
    CHOOSE p \in DOMAIN Val(vector_database).message_metadata :
        Val(vector_database).message_metadata[p] = r.metadata

Returned == {IndexOf(results[i]) : i \in DOMAIN results}

\* C9: of two entries with equal similarity to the query the one with the smaller
\* index is returned first, and it is the one kept when top_k cuts between them.
C9_TiesAscendingIndex ==
    pc = "searched" =>
        /\ \A i, j \in DOMAIN results :
              (i < j /\ results[i].score = results[j].score)
              => IndexOf(results[i]) < IndexOf(results[j])
        /\ \A a, b \in DOMAIN Val(vector_database).embeddings :
              (/\ a < b
               /\ Similarities(query, Val(vector_database))[a]
                    = Similarities(query, Val(vector_database))[b]
               /\ b \in Returned)
              => a \in Returned

\* C10: the persisted index has as many metadata entries as embedding rows, entry i
\* describes the message whose content gave row i, the entries keep the order of the
\* input, and exactly the messages with non-empty content are in it.
C10_ParallelArrays ==
    pc \in {"loaded", "searched"} =>
        LET db == Val(vector_database)
            md == db.message_metadata
        IN  /\ Len(md) = Len(db.embeddings)
            /\ \A i \in DOMAIN md :
                  LET msg == md[i].original_message IN
                  /\ md[i].line_number \in DOMAIN build_messages
                  /\ msg = build_messages[md[i].line_number]
                  /\ msg.content \notin {None, Some(<<>>)}
                  /\ i \in DOMAIN db.embeddings
                  /\ db.embeddings[i] = Embed(Val(msg.content))
            /\ \A i, j \in DOMAIN md : i < j => md[i].line_number < md[j].line_number
            /\ Len(md) = Cardinality({n \in DOMAIN build_messages :
                                        build_messages[n].content \notin {None, Some(<<>>)}})

\* three messages, the second with empty content: the index holds the first and the
\* third, with different embeddings
C10_Witness ==
    /\ pc = "loaded"
    /\ Len(build_messages) = 3
    /\ build_messages[2].content = Some(<<>>)
    /\ Len(Val(vector_database).message_metadata) = 2
    /\ Val(vector_database).message_metadata[2].line_number = 3
    /\ Val(vector_database).embeddings[1] = <<3, 4>>
    /\ Val(vector_database).embeddings[2] = <<1, 0>>

(***************************************************************************)
(* The web server (app.py): the /context handler (app.py 139-189).         *)
(* A JSON value read with int(data.get(key, default)) is <<>> when the key *)
(* is absent, <<n>> for the integer n, and NotANumber for a value that     *)
(* int() rejects.                                                          *)
(***************************************************************************)
Absent == <<>>
NotANumber == <<0, 0>>

\* int(data.get(key, default)): None when int() raises
IntOr(value, default) ==
    IF value = Absent THEN Some(default)
    ELSE IF value = NotANumber THEN None
    ELSE Some(value[1])

Max(a, b) == IF a > b THEN a ELSE b
Min(a, b) == IF a < b THEN a ELSE b

\* os.path.exists(full_path): the transcripts that are on disk
ExistingFiles == {SourceFile}

\* the response of a handler, with the outside calls it made on the way
Reply(status, error, found, context, effects) ==
    [status |-> status, error |-> error, results |-> found,
     context |-> context, effects |-> effects]

\* start_line without the step from line numbers to list positions
StartLineOneBased(line_number, context_lines) ==
    Max(0, line_number - context_lines)
\* start_line = max(0, line_number - context_lines - 1)
StartLine(line_number, context_lines) ==
    Max(0, line_number - context_lines - 1)
\* end_line = min(len(lines), line_number + context_lines)
EndLine(n, line_number, context_lines) ==
    Min(n, line_number + context_lines)

\* the loop over range(start_line, end_line)
ContextEntries(file, line_number, context_lines) ==
    LET start_line == StartLine(line_number, context_lines)
        end_line == EndLine(Len(file), line_number, context_lines)
    IN  [j \in 1..(end_line - start_line) |->
            [line_number |-> start_line + j,
             content |-> RStrip(file[start_line + j], Whitespace),
             is_target |-> (start_line + j = line_number)]]

\* get_context(): the response
ContextReply(data, db, file) ==
    LET line_number == IntOr(data.line_number, 0)
        context_lines == IntOr(data.context_lines, 5)
    IN      IF IsNone(db)
            THEN Reply(500, "Vector database not loaded", <<>>, <<>>, {})
            ELSE IF IsNone(line_number) \/ IsNone(context_lines)
            THEN Reply(500, "Context error", <<>>, <<>>, {})
            ELSE IF data.source_file = "" \/ Val(line_number) <= 0
            THEN Reply(400, "Invalid source file or line number", <<>>, <<>>, {})
            ELSE IF data.source_file \notin ExistingFiles
            THEN Reply(404, "Source file not found", <<>>, <<>>, {"exists"})
            ELSE Reply(200, "", <<>>,
                       ContextEntries(file, Val(line_number), Val(context_lines)),
                       {"exists", "open"})

\* a get_context() that drops the index when the transcript is missing
get_context_DropsIndex(data, db, file) ==
    LET reply == ContextReply(data, db, file)
    IN  [response |-> reply,
         vector_database |-> IF reply.status = 404 THEN None ELSE db]
\* get_context(): the response and the index the server holds afterwards
get_context(data, db, file) ==
    [response |-> ContextReply(data, db, file), vector_database |-> db]

(***************************************************************************)
(* SpecContext: /context requests to a server that has an index loaded,    *)
(* over transcripts of up to MaxFileLines lines and one of 100 lines.      *)
(***************************************************************************)
MaxFileLines == 4
MaxWidth == 2

\* the transcript on disk: line i holds its own number, some lines with
\* blanks around it, all with their line end
FileLine(i) ==
    (IF i % 2 = 0 THEN <<" ">> ELSE <<>>) \o Digits4(i)
    \o (IF i % 3 = 0 THEN <<" ", "\n">> ELSE <<"\n">>)
File(n) == [i \in 1..n |-> FileLine(i)]

ScenarioSizes == {100}
FileSizes == (0..MaxFileLines) \cup ScenarioSizes

JsonInts(S) == {Absent, NotANumber} \cup {<<n>> : n \in S}

ContextData(source_file, line_number, context_lines) ==
    [kind |-> "context", query |-> <<>>, top_k |-> Absent,
     source_file |-> source_file, line_number |-> line_number,
     context_lines |-> context_lines]

ContextRequests(n) ==
    {ContextData(f, l, w) :
        f \in {SourceFile, "gone.txt", ""},
        l \in JsonInts(0..(n + 1)),
        w \in JsonInts(0..MaxWidth)}

InitContext ==
    /\ pc = "lookup"
    /\ \E n \in FileSizes : transcript = File(n)
    /\ build_messages = <<BuildMessage(1, Some(<<"h", "i">>))>>
    /\ vector_database = Some(create_vectors(build_messages))
    /\ artifact = vector_database
    /\ query = <<>>
    /\ top_k = 0
    /\ results = <<>>
    /\ request = None
    /\ response = None
    /\ prev_status = 0
    /\ remembered = None
    /\ argsort_seen = {}
    /\ ChunkIdle
    /\ FetchIdle

\* one POST /context, answered by get_context()
HandleContext(requests) ==
    /\ \E data \in requests :
        LET out == get_context(data, vector_database, transcript)
        IN  /\ request' = Some(data)
            /\ response' = Some(out.response)
            /\ vector_database' = out.vector_database
    /\ prev_status' = IF IsNone(response) THEN 0 ELSE Val(response).status
    /\ UNCHANGED <<build_messages, query, top_k, results, artifact,
                   transcript, remembered, argsort_seen, chunkVars,
                   fetchVars>>

\* a single lookup
ContextLookup ==
    /\ pc = "lookup"
    /\ HandleContext(ContextRequests(Len(transcript)))
    /\ pc' = "answered"

NextContext == ContextLookup
SpecContext == InitContext /\ [][NextContext]_vars

(***************************************************************************)
(* Properties of the context lookup.                                       *)
(***************************************************************************)
\* the last request was a /context request for line l with width w of a
\* transcript on disk
AskedContext(l, w) ==
    /\ ~IsNone(request)
    /\ Val(request).kind = "context"
    /\ Val(request).source_file \in ExistingFiles
    /\ Val(request).line_number = <<l>>
    /\ Val(request).context_lines = <<w>>

\* C11: a context lookup of width w >= 0 around line L, 1 <= L <= N, of a
\* transcript of N lines returns exactly the lines max(1, L - w) .. min(N, L + w)
\* in ascending order, each with its physical line number and text, and
\* exactly one entry, the one numbered L, is the target; for L = 50, w = 2,
\* N = 100 these are the lines 48..52.
C11_ContextWindow ==
    \A l \in 1..Len(transcript), w \in 0..MaxWidth :
        AskedContext(l, w) =>
            LET context == Val(response).context
                lo == Max(1, l - w)
                hi == Min(Len(transcript), l + w)
            IN  /\ Val(response).status = 200
                /\ Len(context) = hi - lo + 1
                /\ \A j \in 1..Len(context) :
                    /\ context[j].line_number = lo + j - 1
                    /\ context[j].content =
                           RStrip(transcript[lo + j - 1], Whitespace)
                    /\ context[j].is_target = (context[j].line_number = l)
                /\ Cardinality({j \in 1..Len(context) : context[j].is_target}) = 1
                /\ (Len(transcript) = 100 /\ l = 50 /\ w = 2 =>
                        [j \in 1..Len(context) |-> context[j].line_number]
                            = <<48, 49, 50, 51, 52>>)

\* the lookup of the lines around line 50 of 100 with width 2 has been answered
C11_Witness ==
    /\ Len(transcript) = 100
    /\ AskedContext(50, 2)
    /\ Len(Val(response).context) = 5
    /\ Val(response).context[3].is_target
    /\ Val(response).context[3].content = <<" ", "0", "0", "5", "0">>

(***************************************************************************)
(* The web server (app.py): search_vectors and the /search handler         *)
(* (app.py 37-137).  model.encode may raise (encode_ok = FALSE).           *)
(* np.argsort is a function of its input on a given build: the order it    *)
(* gave an array before is the order it gives it again (argsort_seen).     *)
(***************************************************************************)
\* np.argsort(similarities) on a build that has already sorted the arrays in seen
ArgsortOnce(similarities, seen) ==
    IF \E pair \in seen : pair[1] = similarities
    THEN {pair[2] : pair \in {p \in seen : p[1] = similarities}}
    ELSE Argsort(similarities)

\* an index that is never taken for empty
IsEmptyIndexNever(db) == FALSE
\* len(embeddings) == 0
IsEmptyIndex(db) == Len(db.embeddings) = 0

\* search_vectors of app.py: the results, the outside calls made, and the
\* arrays argsort has seen afterwards
app_search_vectors(q, db, k, encode_ok, seen) ==
    IF ~encode_ok
    THEN {[results |-> <<>>, effects |-> {"encode", "encode_failed"},
           argsort_seen |-> seen]}
    ELSE IF IsEmptyIndex(db)
    THEN {[results |-> <<>>, effects |-> {"encode"}, argsort_seen |-> seen]}
    ELSE LET similarities == Similarities(q, db)
         IN  {[results |-> ResultsFrom(Take(Reversed(order), k), 1,
                                       similarities, db, <<>>),
               effects |-> {"encode", "cosine_similarity", "argsort"},
               argsort_seen |-> seen \cup {<<similarities, order>>}] :
                 order \in ArgsortOnce(similarities, seen)}

\* formatted_result of one result
FormatResult(result) ==
    [score |-> result.score,
     content |-> result.content,
     username |-> result.metadata.username,
     timestamp |-> result.metadata.timestamp,
     source_file |-> result.metadata.source_file,
     line_number |-> result.metadata.line_number]
FormatResults(found) == [i \in DOMAIN found |-> FormatResult(found[i])]

\* what search() answers before it searches: None when the input is usable
SearchInputError(data) ==
    IF IsNone(IntOr(data.top_k, 10))
    THEN Some(Reply(500, "Search error", <<>>, <<>>, {}))
    ELSE IF data.query = <<>>
    THEN Some(Reply(400, "No query provided", <<>>, <<>>, {}))
    ELSE None

\* the part of search() after the checks
SearchAnswers(data, db, encode_ok, seen) ==
    {[response |-> Reply(200, "", FormatResults(out.results), <<>>, out.effects),
      vector_database |-> db,
      argsort_seen |-> out.argsort_seen] :
        out \in app_search_vectors(data.query, Val(db), Val(IntOr(data.top_k, 10)),
                                   encode_ok, seen)}

SearchFails(reply, db, seen) ==
    {[response |-> reply, vector_database |-> db, argsort_seen |-> seen]}

\* a search() that looks at its input before it looks at the index
search_ValidatesFirst(data, db, encode_ok, seen) ==
    IF ~IsNone(SearchInputError(data))
    THEN SearchFails(Val(SearchInputError(data)), db, seen)
    ELSE IF IsNone(db)
    THEN SearchFails(Reply(500, "Vector database not loaded", <<>>, <<>>, {}), db, seen)
    ELSE SearchAnswers(data, db, encode_ok, seen)

\* search(): the possible responses, each with the index and the arrays
\* argsort has seen afterwards
search(data, db, encode_ok, seen) ==
    IF IsNone(db)
    THEN SearchFails(Reply(500, "Vector database not loaded", <<>>, <<>>, {}), db, seen)
    ELSE IF ~IsNone(SearchInputError(data))
    THEN SearchFails(Val(SearchInputError(data)), db, seen)
    ELSE SearchAnswers(data, db, encode_ok, seen)

(***************************************************************************)
(* The build script (create_vectors.py 108-134) and the start of the       *)
(* server (app.py 13-35, 85-89).                                           *)
(***************************************************************************)
\* main() of create_vectors.py ends in an exception of model.encode: the
\* encoder is called only when there are messages (121-123) and one of them
\* has content (87), and it raises
BuildRaises(msgs, encode_ok) ==
    /\ msgs # <<>>
    /\ CollectFrom(msgs, 1, <<>>, <<>>).message_contents # <<>>
    /\ ~encode_ok

\* main() of create_vectors.py: what vectors.pkl holds afterwards, given what
\* it held before
create_vectors_main(msgs, encode_ok, before) ==
    IF msgs = <<>> THEN before
    ELSE IF BuildRaises(msgs, encode_ok) THEN before
    ELSE Some(create_vectors(msgs))

\* load_vector_database('vectors.pkl')
load_vector_database(file) == file

(***************************************************************************)
(* SpecServe: the index is built (or the build fails), the server starts   *)
(* and loads what the build left, then answers /search and /context        *)
(* requests in any order.                                                  *)
(***************************************************************************)
ServeContents ==
    {<<>>,
     <<Some(<<>>), None>>,
     <<Some(<<"y">>), Some(<<"y">>)>>,
     <<Some(<<"h", "i">>), Some(<<"x">>), Some(<<"y">>)>>}
ServeBuilds == {[i \in DOMAIN cs |-> BuildMessage(i, cs[i])] : cs \in ServeContents}

ServeQueries == {<<>>, <<"y">>, <<"n", "o">>}

SearchData(q, k) ==
    [kind |-> "search", query |-> q, top_k |-> k,
     source_file |-> "", line_number |-> Absent, context_lines |-> Absent]

SearchRequests ==
    {SearchData(q, k) : q \in ServeQueries, k \in JsonInts(1..MaxTopK)}

ServeContextRequests ==
    {ContextData(f, l, <<MaxWidth>>) :
        f \in {SourceFile, "gone.txt", ""},
        l \in {NotANumber, <<0>>, <<1>>, <<MaxFileLines>>}}

InitServe ==
    /\ pc = "build"
    /\ build_messages \in ServeBuilds
    /\ transcript = File(MaxFileLines)
    /\ artifact = None
    /\ vector_database = None
    /\ query = <<>>
    /\ top_k = 0
    /\ results = <<>>
    /\ request = None
    /\ response = None
    /\ prev_status = 0
    /\ remembered = None
    /\ argsort_seen = {}
    /\ ChunkIdle
    /\ FetchIdle

\* python create_vectors.py
BuildIndex ==
    /\ pc = "build"
    /\ \E encode_ok \in BOOLEAN :
        /\ artifact' = create_vectors_main(build_messages, encode_ok, artifact)
        /\ pc' = IF BuildRaises(build_messages, encode_ok)
                 THEN "build_failed" ELSE "built"
    /\ UNCHANGED <<build_messages, vector_database, query, top_k, results,
                   transcript, request, response, prev_status, remembered,
                   argsort_seen, chunkVars, fetchVars>>

\* python app.py: the module-level load
StartServer ==
    /\ pc \in {"built", "build_failed"}
    /\ vector_database' = load_vector_database(artifact)
    /\ pc' = "serving"
    /\ UNCHANGED <<build_messages, query, top_k, results, artifact, transcript,
                   request, response, prev_status, remembered, argsort_seen,
                   chunkVars, fetchVars>>

\* one POST /search, answered by search()
SearchRequest ==
    /\ pc = "serving"
    /\ \E data \in SearchRequests, encode_ok \in BOOLEAN :
        \E out \in search(data, vector_database, encode_ok, argsort_seen) :
            /\ request' = Some(data)
            /\ response' = Some(out.response)
            /\ vector_database' = out.vector_database
            /\ argsort_seen' = out.argsort_seen
            /\ \/ remembered' = remembered
               \/ /\ out.response.status = 200
                  /\ remembered' = Some([query |-> data.query, top_k |-> data.top_k,
                                         results |-> out.response.results])
    /\ prev_status' = IF IsNone(response) THEN 0 ELSE Val(response).status
    /\ UNCHANGED <<pc, build_messages, query, top_k, results, artifact,
                   transcript, chunkVars, fetchVars>>

\* one POST /context
ContextRequest ==
    /\ pc = "serving"
    /\ HandleContext(ServeContextRequests)
    /\ pc' = pc

NextServe == BuildIndex \/ StartServer \/ SearchRequest \/ ContextRequest
SpecServe == InitServe /\ [][NextServe]_vars

(***************************************************************************)
(* Properties of the server.                                               *)
(***************************************************************************)
Answered(kind) ==
    /\ pc = "serving"
    /\ ~IsNone(request)
    /\ Val(request).kind = kind

\* C12: while no index is loaded, every /search and every /context request
\* is answered with the index-unavailable error and with nothing else done
\* for it: no query embedding, no file access, no verdict on the input.
C12_UnavailableFirst ==
    (pc = "serving" /\ IsNone(vector_database) /\ ~IsNone(request)) =>
        /\ Val(response).status = 500
        /\ Val(response).error = "Vector database not loaded"
        /\ Val(response).effects = {}
        /\ Val(response).results = <<>>
        /\ Val(response).context = <<>>

\* a lookup with an unusable line number in a missing transcript has been
\* refused for want of an index, after another request was refused
C12_Witness ==
    /\ IsNone(vector_database)
    /\ Answered("context")
    /\ Val(request).source_file = "gone.txt"
    /\ Val(request).line_number = NotANumber
    /\ Val(response).error = "Vector database not loaded"
    /\ prev_status = 500

\* the last request was a /context request with a usable line number and
\* width, for a line from 1 on of the transcript named source_file
UsableContextRequest ==
    /\ Answered("context")
    /\ Val(request).source_file # ""
    /\ ~IsNone(IntOr(Val(request).line_number, 0))
    /\ ~IsNone(IntOr(Val(request).context_lines, 5))
    /\ Val(IntOr(Val(request).line_number, 0)) > 0

\* C13: with an index loaded, a context request that names a transcript
\* that is not on disk fails with an outcome of its own (404, not found),
\* carries no context lines and leaves the loaded index as it was; a
\* request for a transcript that is on disk succeeds, whatever came before.
C13_NotFoundIsLocal ==
    /\ (UsableContextRequest /\ vector_database # None
            /\ Val(request).source_file \notin ExistingFiles) =>
        /\ Val(response).status = 404
        /\ Val(response).error = "Source file not found"
        /\ Val(response).context = <<>>
        /\ Val(response).effects = {"exists"}
    /\ (UsableContextRequest /\ vector_database # None
            /\ Val(request).source_file \in ExistingFiles) =>
        /\ Val(response).status = 200
        /\ Val(response).context # <<>>
    /\ (pc = "serving" /\ ~IsNone(response) /\ Val(response).status = 404) =>
        /\ UsableContextRequest
        /\ Val(request).source_file \notin ExistingFiles
        /\ vector_database # None
    /\ (pc = "serving" /\ prev_status = 404) =>
        /\ vector_database # None
        /\ vector_database = load_vector_database(artifact)

\* a lookup in a transcript on disk has succeeded right after a lookup in
\* a missing transcript had failed
C13_Witness ==
    /\ UsableContextRequest
    /\ Val(request).source_file \in ExistingFiles
    /\ Val(response).status = 200
    /\ Len(Val(response).context) > 1
    /\ prev_status = 404

\* model.encode raised while the last request was answered
EncodeFailedInRequest ==
    /\ Answered("search")
    /\ "encode_failed" \in Val(response).effects

\* C14: when the embedding call fails during a query, the query fails and
\* the failure reaches the caller, who never gets a successful (possibly
\* empty) result list; when it fails during the build of the index, no
\* index file is written.
C14_EmbeddingFailureSurfaces ==
    /\ EncodeFailedInRequest => Val(response).status # 200
    /\ pc = "build_failed" => artifact = None

\* the last request was a /search request with a query and a usable top_k,
\* answered with an index loaded
UsableSearchRequest ==
    /\ Answered("search")
    /\ vector_database # None
    /\ IsNone(SearchInputError(Val(request)))

\* C15: a search in a loaded index with zero embedding rows returns the
\* empty result sequence, for every query and every top_k: it does not fail
\* and it computes no similarity.
C15_EmptyIndexEmptyResult ==
    (UsableSearchRequest /\ Val(vector_database).embeddings = <<>>) =>
        /\ Val(response).status = 200
        /\ Val(response).results = <<>>
        /\ "cosine_similarity" \notin Val(response).effects
        /\ "argsort" \notin Val(response).effects

\* the query 'y' with top_k 2 has been answered from an index without rows
C15_Witness ==
    /\ UsableSearchRequest
    /\ Len(build_messages) = 2
    /\ Val(vector_database).embeddings = <<>>
    /\ Val(vector_database).message_metadata = <<>>
    /\ Val(request).query = <<"y">>
    /\ Val(request).top_k = <<2>>
    /\ Val(response).status = 200
    /\ Val(response).results = <<>>
    /\ Val(response).effects = {"encode"}

\* the last request repeats the remembered search
RepeatsRemembered ==
    /\ Answered("search")
    /\ Val(response).status = 200
    /\ ~IsNone(remembered)
    /\ Val(remembered).query = Val(request).query
    /\ Val(remembered).top_k = Val(request).top_k

\* C16: once the index is loaded at startup, no sequence of /search and
\* /context requests changes it, and the same query asked twice gets the
\* same results with the same scores.
C16_ReadOnlyAndRepeatable ==
    /\ pc = "serving" => vector_database = load_vector_database(artifact)
    /\ RepeatsRemembered => Val(response).results = Val(remembered).results

(***************************************************************************)
(* The reference ranking: sort all candidates by descending similarity,    *)
(* remove those with similarity <= 0, keep the first top_k.  The order of  *)
(* candidates of equal similarity is left open, as it is by argsort.       *)
(***************************************************************************)
DescendingOrders(similarities) ==
    {p \in [DOMAIN similarities -> DOMAIN similarities] :
        /\ \A i, j \in DOMAIN similarities : i # j => p[i] # p[j]
        /\ \A i, j \in DOMAIN similarities :
              i < j => similarities[p[i]] >= similarities[p[j]]}

ReferenceRanking(sorted, similarities, db, k) ==
    LET positive == SelectSeq(sorted, LAMBDA idx : similarities[idx] > 0)
        kept == SubSeq(positive, 1, Min(k, Len(positive)))
    IN  [n \in DOMAIN kept |->
            [score |-> similarities[kept[n]],
             metadata |-> db.message_metadata[kept[n]],
             content |-> Val(db.message_metadata[kept[n]].original_message.content)]]

ReferenceResults(q, db, k) ==
    {ReferenceRanking(sorted, Similarities(q, db), db, k) :
        sorted \in DescendingOrders(Similarities(q, db))}

\* C17: the result of search_vectors, which cuts the ranking to top_k and
\* then drops the non-positive similarities, is the result of the reference
\* that sorts all candidates by descending similarity, drops those with
\* similarity <= 0 and then keeps the first top_k, for every index and top_k.
C17_FilterBeforeTruncation ==
    pc = "searched" => results \in ReferenceResults(query, Val(vector_database), top_k)

\* top_k = 2 cut the ranking of three entries behind a non-positive one, and
\* the only positive entry came back
C17_Witness ==
    /\ pc = "searched"
    /\ top_k = 2
    /\ Len(Val(vector_database).embeddings) = 3
    /\ Len(results) = 1
    /\ Cardinality({i \in 1..3 : Similarities(query, Val(vector_database))[i] <= 0}) = 2
    /\ \E i, j \in 1..3 :
        /\ Similarities(query, Val(vector_database))[i] = 0
        /\ Similarities(query, Val(vector_database))[j] < 0

(***************************************************************************)
(* The exporter (scrapeDiscord.py): safe_fetch_history (36-59) driven by   *)
(* the loop of on_ready over one channel (84-133).  A message is its id;   *)
(* ids grow with time.  channel.history may raise at any point of its      *)
(* iteration; each attempt calls channel.history again with the  *)
(* same `after`.  The write of the message line (line 112) is taken as     *)
(* part of the loop body it stands in.                                     *)
(***************************************************************************)
max_retries == 5

\* the lines on_ready appends for one message
MessageLines(message) ==
    <<[kind |-> "message", id |-> message]>>
    \o (IF message % 2 = 0 THEN <<[kind |-> "attachment", id |-> message]>> ELSE <<>>)
    \o (IF message % 3 = 0 THEN <<[kind |-> "embed", id |-> message]>> ELSE <<>>)

\* channel.history(limit=None, oldest_first=True[, after=last_id]) of a
\* channel holding the messages 1..n
ChannelHistory(n, after) ==
    LET first == IF IsNone(after) THEN 1 ELSE Val(after) + 1
    IN  [i \in 1..(n + 1 - first) |-> first + i - 1]

\* the lines after the `with` block: the state is saved if anything was written
SavedAfter(count, last, before) == IF count > 0 THEN last ELSE before

(***************************************************************************)
(* SpecFetch: one channel of one export run, over channels of up to        *)
(* MaxHistory messages of which any number was exported before.            *)
(***************************************************************************)
MaxHistory == 3

InitFetch ==
    /\ pc = "fetch"
    /\ \E n \in 0..MaxHistory :
        /\ last_id \in {None} \cup {Some(k) : k \in 1..n}
        /\ history = ChannelHistory(n, last_id)
    /\ attempt = 0
    /\ retry_delay = 1
    /\ cursor = 0
    /\ export_file = <<>>
    /\ new_last_id = last_id
    /\ message_count = 0
    /\ saved = last_id
    /\ ChunkIdle
    /\ IndexIdle
    /\ ServeIdle

\* channel.history yields its next message and the loop body writes it
YieldMessage ==
    /\ pc = "fetch"
    /\ cursor < Len(history)
    /\ LET message == history[cursor + 1]
       IN  /\ export_file' = export_file \o MessageLines(message)
           /\ new_last_id' = Some(message)
    /\ message_count' = message_count + 1
    /\ cursor' = cursor + 1
    /\ UNCHANGED <<pc, last_id, history, attempt, retry_delay, saved,
                   chunkVars, indexVars, serveVars>>

\* the end of safe_fetch_history without an exception, and of the channel
FinishChannel ==
    /\ saved' = SavedAfter(message_count, new_last_id, saved)
    /\ pc' = "done"

\* channel.history is exhausted: `return`
HistoryExhausted ==
    /\ pc = "fetch"
    /\ cursor = Len(history)
    /\ FinishChannel
    /\ UNCHANGED <<last_id, history, attempt, retry_delay, cursor, export_file,
                   new_last_id, message_count, chunkVars, indexVars, serveVars>>

\* the next attempt of the for loop: channel.history anew
NextAttempt ==
    /\ attempt' = attempt + 1
    /\ cursor' = 0
    /\ pc' = pc
    /\ saved' = saved

\* except discord.RateLimited: sleep, double the delay, go round the loop
RateLimited ==
    /\ pc = "fetch"
    /\ retry_delay' = retry_delay * 2
    /\ IF attempt + 1 < max_retries
       THEN NextAttempt
       ELSE FinishChannel /\ UNCHANGED <<attempt, cursor>>
    /\ UNCHANGED <<last_id, history, export_file, new_last_id, message_count,
                   chunkVars, indexVars, serveVars>>

\* except discord.Forbidden: `return`
Forbidden ==
    /\ pc = "fetch"
    /\ FinishChannel
    /\ UNCHANGED <<last_id, history, attempt, retry_delay, cursor, export_file,
                   new_last_id, message_count, chunkVars, indexVars, serveVars>>

\* except Exception: retry, or raise on the last attempt; on_ready catches
\* what is raised and goes on to the next channel without saving the state
UnexpectedError ==
    /\ pc = "fetch"
    /\ IF attempt < max_retries - 1
       THEN NextAttempt /\ retry_delay' = retry_delay * 2
       ELSE /\ pc' = "failed"
            /\ UNCHANGED <<attempt, retry_delay, cursor, saved>>
    /\ UNCHANGED <<last_id, history, export_file, new_last_id, message_count,
                   chunkVars, indexVars, serveVars>>

NextFetch ==
    YieldMessage \/ HistoryExhausted \/ RateLimited \/ Forbidden \/ UnexpectedError
SpecFetch == InitFetch /\ [][NextFetch]_vars

(***************************************************************************)
(* Properties of the exporter.                                             *)
(***************************************************************************)
\* the ids of the messages written by this run, in the order of writing
WrittenIds ==
    LET written == SelectSeq(export_file, LAMBDA line : line.kind = "message")
    IN  [i \in DOMAIN written |-> written[i].id]

\* C18: in one run over a channel, whatever point a fetch attempt fails at
\* and however many of the at most 5 attempts are made, each message is
\* yielded, and so written to the transcript, at most once, and the id saved
\* when the run has ended is the id of the last message written.
C18_EachMessageOnce ==
    /\ \A i, j \in DOMAIN WrittenIds : i # j => WrittenIds[i] # WrittenIds[j]
    /\ (pc \in {"done", "failed"} /\ WrittenIds # <<>>) =>
          saved = Some(WrittenIds[Len(WrittenIds)])

====
